---- MODULE Spec2Model ----
(***************************************************************************)
(* Model of src/components/health.astro: the health-check engine of        *)
(* astro-health-checker.  getEndpointStatuses() serves the process-wide    *)
(* cache while it is fresh and otherwise probes every endpoint of the      *)
(* content collection concurrently (Promise.all over async callbacks, one  *)
(* AbortController and one 5 s timer per probe), mails the failed          *)
(* endpoints through sendEmail() without awaiting it, installs the new     *)
(* cache value and returns it.                                             *)
(*                                                                         *)
(* A value that may be absent (null / undefined in the source) is a        *)
(* sequence of length 0 or 1.  A text is a sequence of words, so that      *)
(* toLowerCase() and includes() are computed and not assumed.              *)
(***************************************************************************)
EXTENDS Integers, Sequences, FiniteSets, TLC

\* ------------------------------------------------------------------ bounds
\* Number of entries of the endpoints collection.
NumEndpoints == 2
\* Date.now() is not advanced beyond this many milliseconds.
MaxTime == 65000

\* --------------------------------------------------------------- constants
CACHE_DURATION_MS == 60 * 1000
TIMEOUT_MS == 5000

\* The concurrent page requests (each runs the component's frontmatter).
Callers == {"r1", "r2"}
\* Amounts by which the wall clock advances between two events.
Steps == {30000}

Indices == 1..NumEndpoints

\* schema of content.config.ts: expectedStatus is a positive integer.
\* Odd entries expect 200, even entries expect 404.
endpointCollectionEntries ==
    [i \in Indices |->
        [name |-> i, expectedStatus |-> IF i % 2 = 1 THEN 200 ELSE 404]]

\* Status codes a target may answer with.
ResponseCodes == {200, 404}

\* `${n}` of a template literal: the decimal text of a status code.
NumberText(n) ==
    CASE n = 200 -> "200"
      [] n = 404 -> "404"
      [] OTHER -> "NaN"

\* String.prototype.toLowerCase on one word.
LowerWord(w) ==
    CASE w = "Timed" -> "timed"
      [] w = "Out" -> "out"
      [] w = "Socket" -> "socket"
      [] w = "This" -> "this"
      [] w = "Request" -> "request"
      [] w = "Expected" -> "expected"
      [] w = "Connection" -> "connection"
      [] OTHER -> w

toLowerCase(msg) == [k \in 1..Len(msg) |-> LowerWord(msg[k])]

\* String.prototype.includes: pat occurs in msg as a contiguous run of words.
includes(msg, pat) ==
    \E k \in 1..(Len(msg) - Len(pat) + 1) : SubSeq(msg, k, k + Len(pat) - 1) = pat

\* What controller.abort() makes fetch reject with (a DOMException).
AbortError ==
    [name |-> "AbortError", message |-> << <<"This", "operation", "was", "aborted">> >>]

\* The values fetch may reject with when the transaction fails by itself:
\* a TypeError, an error whose text mentions a timeout, a connection error
\* whose text mentions an abort, and a thrown value that is no Error object
\* (error.message is undefined).
FetchFailures ==
    { [name |-> "TypeError", message |-> << <<"fetch", "failed">> >>],
      [name |-> "Error", message |-> << <<"Socket", "Timed", "Out">> >>],
      [name |-> "Error", message |-> << <<"Connection", "aborted", "by", "peer">> >>],
      [name |-> "undefined", message |-> << >>] }

\* The answers and failures the transactions of concurrent requests are given.
ConcurrentCodes == {s \in ResponseCodes : s < 300}

ConcurrentFailures == {f \in FetchFailures : f.name = "undefined"}

TimedOutMessage == <<"Request", "timed", "out", "or", "was", "aborted.">>

VARIABLES
    clock,            \* Date.now()
    apiKey,           \* import.meta.env.PUBLIC_RESEND_API_KEY is set
    cache,            \* globalThis[HEALTH_CHECK_CACHE_KEY]: <<>> or <<CacheData>>
    pc,               \* position of each request in getEndpointStatuses
    now,              \* local `now` of each request
    probe,            \* the async callbacks of endpointCollectionEntries.map
    failedEndpoints,  \* local `failedEndpoints` of each request
    ret,              \* what getEndpointStatuses returned: <<>> or <<CacheData>>
    email             \* the sendEmail call of each request

vars == <<clock, apiKey, cache, pc, now, probe, failedEndpoints,
          ret, email>>

\* A probe that was never started (the request was served from the cache).
NoProbe == [st |-> "none", timer |-> FALSE, txn |-> "none", code |-> 0,
            err |-> << >>, value |-> << >>]
\* A probe right after fetch() was called: timer armed, transaction open.
PendingProbe == [NoProbe EXCEPT !.st = "pending", !.timer = TRUE]

NoEmail == [calls |-> 0, st |-> "none", content |-> << >>]

Init ==
    /\ clock = 0
    /\ apiKey \in BOOLEAN
    /\ cache = << >>
    /\ pc = [c \in Callers |-> "idle"]
    /\ now = [c \in Callers |-> 0]
    /\ probe = [c \in Callers |-> [i \in Indices |-> NoProbe]]
    /\ failedEndpoints = [c \in Callers |-> << >>]
    /\ ret = [c \in Callers |-> << >>]
    /\ email = [c \in Callers |-> NoEmail]

\* ------------------------------------------------------------------ cache
getGlobalCache == cache

setGlobalCache(data) == << data >>

\* Mutation of IsFresh: the window is taken in seconds, not milliseconds.
IsFreshSeconds(cur, t) ==
    /\ cur # << >>
    /\ t - cur[1].lastChecked < 60

\* Mutation of IsFresh: a value exactly CACHE_DURATION_MS old still counts.
IsFreshInclusive(cur, t) ==
    /\ cur # << >>
    /\ t - cur[1].lastChecked <= CACHE_DURATION_MS

\* line 105: currentCache && (now - currentCache.lastChecked < CACHE_DURATION_MS)
IsFresh(cur, t) ==
    /\ cur # << >>
    /\ t - cur[1].lastChecked < CACHE_DURATION_MS

\* ------------------------------------------------------------------ probe
\* Mutation of isSuccess: any 2xx answer counts (response.ok).
isSuccessOk(status, endpoint) == status >= 200 /\ status < 300

\* line 140: const isSuccess = response.status === endpoint.expectedStatus
isSuccess(status, endpoint) == status = endpoint.expectedStatus

\* `Expected status ${endpoint.expectedStatus} but got ${response.status}`
MismatchMessage(endpoint, status) ==
    <<"Expected", "status", NumberText(endpoint.expectedStatus), "but", "got",
      NumberText(status)>>

\* lines 157-169: the object the callback returns when fetch resolved.
ResponseOutcome(endpoint, status) ==
    [name |-> endpoint.name,
     expectedStatus |-> endpoint.expectedStatus,
     status |-> IF isSuccess(status, endpoint) THEN "Healthy" ELSE "Unhealthy",
     statusCode |-> << status >>,
     errorMessage |-> IF isSuccess(status, endpoint)
                      THEN << >>
                      ELSE << MismatchMessage(endpoint, status) >>]

\* lines 142-154: the object pushed on failedEndpoints on a mismatch.
FailedEntry(endpoint, status) ==
    [name |-> endpoint.name,
     expectedStatus |-> endpoint.expectedStatus,
     status |-> "Unhealthy",
     statusCode |-> << status >>,
     errorMessage |-> << MismatchMessage(endpoint, status) >>]

\* line 173: the test of the catch block.  error.message.toLowerCase() is
\* evaluated only when error.name is not 'AbortError'.
\* Mutation of LooksLikeTimeout: the message is tested as it is written.
LooksLikeTimeoutCaseSensitive(error) ==
    \/ error.name = "AbortError"
    \/ includes(error.message[1], <<"timed", "out">>)
    \/ includes(error.message[1], <<"aborted">>)

LooksLikeTimeout(error) ==
    \/ error.name = "AbortError"
    \/ includes(toLowerCase(error.message[1]), <<"timed", "out">>)
    \/ includes(toLowerCase(error.message[1]), <<"aborted">>)

\* line 173 raises a TypeError itself when error.message is undefined and
\* the first disjunct did not short-circuit the test.
CatchThrows(error) == error.name # "AbortError" /\ error.message = << >>

\* Mutation of ErrorOutcome: the message of the error is passed through.
ErrorOutcomeRaw(endpoint, error) ==
    [name |-> endpoint.name,
     expectedStatus |-> endpoint.expectedStatus,
     status |-> "Error",
     statusCode |-> << >>,
     errorMessage |-> error.message]

\* lines 172-188: the object the callback returns from its catch block.
ErrorOutcome(endpoint, error) ==
    [name |-> endpoint.name,
     expectedStatus |-> endpoint.expectedStatus,
     status |-> "Error",
     statusCode |-> << >>,
     errorMessage |-> IF LooksLikeTimeout(error)
                      THEN << TimedOutMessage >>
                      ELSE error.message]

\* lines 170-189: the catch block as a whole, on the probe's record: the
\* callback returns an Error outcome, or rejects when line 173 raises.
Catch(p, endpoint, error, how) ==
    IF CatchThrows(error)
    THEN [p EXCEPT !.st = "rejected", !.timer = FALSE, !.txn = how,
                   !.err = << error >>]
    ELSE [p EXCEPT !.st = "fulfilled", !.timer = FALSE, !.txn = how,
                   !.err = << error >>,
                   !.value = << ErrorOutcome(endpoint, error) >>]

\* Mutation of Try: clearTimeout is left out.
TryLeaky(p, endpoint, status) ==
    [p EXCEPT !.st = "fulfilled", !.txn = "response",
              !.code = status, !.value = << ResponseOutcome(endpoint, status) >>]

\* lines 137-169: the try block, on the probe's record.
Try(p, endpoint, status) ==
    [p EXCEPT !.st = "fulfilled", !.timer = FALSE, !.txn = "response",
              !.code = status, !.value = << ResponseOutcome(endpoint, status) >>]

\* Mutation of PushFailed: the entry is inserted at its definition's place.
PushFailedSorted(failed, endpoint, status) ==
    IF isSuccess(status, endpoint)
    THEN failed
    ELSE LET e == FailedEntry(endpoint, status)
             before == SelectSeq(failed, LAMBDA f : f.name < e.name)
             after == SelectSeq(failed, LAMBDA f : f.name > e.name)
         IN before \o << e >> \o after

\* lines 141-155: failedEndpoints after the try block.
PushFailed(failed, endpoint, status) ==
    IF isSuccess(status, endpoint)
    THEN failed
    ELSE Append(failed, FailedEntry(endpoint, status))

\* line 116: setTimeout(..., 5000), armed in the turn that reads Date.now().
Deadline(c) == now[c] + TIMEOUT_MS

\* ------------------------------------------------------------ Promise.all
\* Promise.all resolves once every callback of the map has returned.
AllFulfilled(ps) == \A i \in Indices : ps[i].st = "fulfilled"

\* Promise.all rejects as soon as one callback has rejected.
SomeRejected(ps) == \E i \in Indices : ps[i].st = "rejected"

\* Mutation of PromiseAllValues: the value of one callback only
\* (Promise.race in place of Promise.all).
PromiseRaceValue(ps) == << ps[1].value[1] >>

\* Mutation of PromiseAllValues: the values in reverse order.
PromiseAllValuesReversed(ps) == [i \in Indices |-> ps[NumEndpoints + 1 - i].value[1]]

\* The array Promise.all resolves with: the value of the i-th promise at i.
PromiseAllValues(ps) == [i \in Indices |-> ps[i].value[1]]

\* --------------------------------------------------------------- sendEmail
\* lines 74-78: one <li> per endpoint given.
EmailContent(endpoits) ==
    [k \in 1..Len(endpoits) |-> <<endpoits[k].name, endpoits[k].status>>]

\* Mutation of sendEmail: one call to the provider per failed endpoint.
sendEmailEach(endpoits) ==
    [calls |-> Len(endpoits), st |-> "inflight", content |-> EmailContent(endpoits)]

\* lines 73-92: sendEmail up to its first await: one fetch to the provider.
sendEmail(endpoits) ==
    [calls |-> 1, st |-> "inflight", content |-> EmailContent(endpoits)]

\* line 193: the guard of the notification.
ShouldNotify(key, failed) == key /\ Len(failed) > 0

\* ---------------------------------------------------- getEndpointStatuses
\* A request slot takes a new request once the previous one has left
\* getEndpointStatuses and all its callbacks have settled.
Idle(c) == pc[c] # "awaiting" /\ \A i \in Indices : probe[c][i].st # "pending"

\* lines 101-108: the cache is fresh; return it.
\* Mutation of ReturnCached: the cached value is returned and the probes
\* are started all the same.
ReturnCachedRevalidating(c) ==
    /\ Idle(c)
    /\ IsFresh(getGlobalCache, clock)
    /\ now' = [now EXCEPT ![c] = clock]
    /\ ret' = [ret EXCEPT ![c] = getGlobalCache]
    /\ pc' = [pc EXCEPT ![c] = "returned"]
    /\ probe' = [probe EXCEPT ![c] = [i \in Indices |-> PendingProbe]]
    /\ failedEndpoints' = [failedEndpoints EXCEPT ![c] = << >>]
    /\ email' = [email EXCEPT ![c] = NoEmail]
    /\ UNCHANGED <<clock, apiKey, cache>>

ReturnCached(c) ==
    /\ Idle(c)
    /\ IsFresh(getGlobalCache, clock)
    /\ now' = [now EXCEPT ![c] = clock]
    /\ ret' = [ret EXCEPT ![c] = getGlobalCache]
    /\ pc' = [pc EXCEPT ![c] = "returned"]
    /\ probe' = [probe EXCEPT ![c] = [i \in Indices |-> NoProbe]]
    /\ failedEndpoints' = [failedEndpoints EXCEPT ![c] = << >>]
    /\ email' = [email EXCEPT ![c] = NoEmail]
    /\ UNCHANGED <<clock, apiKey, cache>>

\* lines 101-137: the cache is empty or stale; every callback of the map
\* runs up to its fetch, and the function awaits Promise.all.
Launch(c) ==
    /\ Idle(c)
    /\ ~IsFresh(getGlobalCache, clock)
    /\ now' = [now EXCEPT ![c] = clock]
    /\ ret' = [ret EXCEPT ![c] = << >>]
    /\ pc' = [pc EXCEPT ![c] = "awaiting"]
    /\ probe' = [probe EXCEPT ![c] = [i \in Indices |-> PendingProbe]]
    /\ failedEndpoints' = [failedEndpoints EXCEPT ![c] = << >>]
    /\ email' = [email EXCEPT ![c] = NoEmail]
    /\ UNCHANGED <<clock, apiKey, cache>>

\* Mutation of Complete: the result is stamped with Date.now() read again
\* after Promise.all.
CompleteStampedNow(c, ps, failed) ==
    LET newCacheData == [statuses |-> PromiseAllValues(ps), lastChecked |-> clock] IN
    /\ email' = [email EXCEPT ![c] =
                    IF ShouldNotify(apiKey, failed) THEN sendEmail(failed) ELSE @]
    /\ cache' = setGlobalCache(newCacheData)
    /\ ret' = [ret EXCEPT ![c] = << newCacheData >>]
    /\ pc' = [pc EXCEPT ![c] = "returned"]

\* Mutation of Complete: sendEmail is awaited before the cache is set.
CompleteAwaitingEmail(c, ps, failed) ==
    /\ email' = [email EXCEPT ![c] =
                    IF ShouldNotify(apiKey, failed) THEN sendEmail(failed) ELSE @]
    /\ IF ShouldNotify(apiKey, failed)
       THEN /\ pc' = [pc EXCEPT ![c] = "sending"]
            /\ UNCHANGED <<cache, ret>>
       ELSE /\ cache' = setGlobalCache([statuses |-> PromiseAllValues(ps),
                                        lastChecked |-> now[c]])
            /\ ret' = [ret EXCEPT ![c] = cache']
            /\ pc' = [pc EXCEPT ![c] = "returned"]

\* lines 193-199: Promise.all resolved with the callbacks ps; notify,
\* install, return.
Complete(c, ps, failed) ==
    LET newCacheData == [statuses |-> PromiseAllValues(ps), lastChecked |-> now[c]] IN
    /\ email' = [email EXCEPT ![c] =
                    IF ShouldNotify(apiKey, failed) THEN sendEmail(failed) ELSE @]
    /\ cache' = setGlobalCache(newCacheData)
    /\ ret' = [ret EXCEPT ![c] = << newCacheData >>]
    /\ pc' = [pc EXCEPT ![c] = "returned"]

\* line 112: Promise.all rejected and getEndpointStatuses rejects with it:
\* nothing is sent, installed or returned.
Throw(c) ==
    /\ pc' = [pc EXCEPT ![c] = "threw"]
    /\ UNCHANGED <<cache, ret, email>>

\* lines 112, 191-199: what the settling of one callback lets the awaiting
\* function do within the same turn of the event loop (the continuations
\* are microtasks): ps and failed are the callbacks and failedEndpoints of
\* request c after the callback has settled.
\* Mutation of Resume: the notifier is called as soon as a callback has
\* recorded a failure.
ResumeNotifyEarly(c, ps, failed) ==
    IF pc[c] = "awaiting" /\ AllFulfilled(ps)
    THEN Complete(c, ps, failed)
    ELSE IF pc[c] = "awaiting" /\ SomeRejected(ps)
    THEN Throw(c)
    ELSE /\ email' = [email EXCEPT ![c] =
                         IF pc[c] = "awaiting" /\ ShouldNotify(apiKey, failed)
                         THEN sendEmail(failed) ELSE @]
         /\ UNCHANGED <<cache, ret, pc>>

Resume(c, ps, failed) ==
    IF pc[c] = "awaiting" /\ AllFulfilled(ps)
    THEN Complete(c, ps, failed)
    ELSE IF pc[c] = "awaiting" /\ SomeRejected(ps)
    THEN Throw(c)
    ELSE UNCHANGED <<cache, ret, email, pc>>

\* lines 137-169: fetch resolves with a response of the given status.
FetchResponds(c, i, status) ==
    LET endpoint == endpointCollectionEntries[i]
        ps == [probe[c] EXCEPT ![i] = Try(@, endpoint, status)]
        failed == PushFailed(failedEndpoints[c], endpoint, status)
    IN
    /\ probe[c][i].st = "pending"
    /\ probe' = [probe EXCEPT ![c] = ps]
    /\ failedEndpoints' = [failedEndpoints EXCEPT ![c] = failed]
    /\ Resume(c, ps, failed)
    /\ UNCHANGED <<clock, apiKey, now>>

\* lines 137, 170-189: fetch rejects because the transaction failed.
FetchFails(c, i, error) ==
    LET ps == [probe[c] EXCEPT ![i] =
                  Catch(@, endpointCollectionEntries[i], error, "failure")]
    IN
    /\ probe[c][i].st = "pending"
    /\ probe' = [probe EXCEPT ![c] = ps]
    /\ Resume(c, ps, failedEndpoints[c])
    /\ UNCHANGED <<clock, apiKey, now, failedEndpoints>>

\* line 116: the timer runs controller.abort(); fetch rejects with an
\* AbortError and the catch block runs.
TimerFires(c, i) ==
    LET ps == [probe[c] EXCEPT ![i] =
                  Catch(@, endpointCollectionEntries[i], AbortError, "abort")]
    IN
    /\ probe[c][i].st = "pending"
    /\ probe[c][i].timer
    /\ clock >= Deadline(c)
    /\ probe' = [probe EXCEPT ![c] = ps]
    /\ Resume(c, ps, failedEndpoints[c])
    /\ UNCHANGED <<clock, apiKey, now, failedEndpoints>>

\* lines 80-93: the provider answered and response.json() parsed.
EmailDone(c) ==
    /\ email[c].st = "inflight"
    /\ email' = [email EXCEPT ![c].st = "done"]
    /\ UNCHANGED <<clock, apiKey, cache, pc, now, probe, failedEndpoints, ret>>

\* Mutation of EmailFailed: the call to the provider is made again.
EmailFailedRetry(c) ==
    /\ email[c].st = "inflight"
    /\ email' = [email EXCEPT ![c].calls = @ + 1]
    /\ UNCHANGED <<clock, apiKey, cache, pc, now, probe, failedEndpoints, ret>>

\* lines 94-96: fetch or response.json() threw; the error is logged.
EmailFailed(c) ==
    /\ email[c].st = "inflight"
    /\ email' = [email EXCEPT ![c].st = "logged"]
    /\ UNCHANGED <<clock, apiKey, cache, pc, now, probe, failedEndpoints, ret>>

\* ------------------------------------------------------------------- time
\* The deadlines of the timers that are still armed.
ArmedDeadlines ==
    {Deadline(c) : c \in {r \in Callers : \E i \in Indices : probe[r][i].timer}}

\* Date.now() advances by d, or up to the first armed deadline if that comes
\* earlier: a timer runs when it is due.
Tick(d) ==
    LET target == IF \E t \in ArmedDeadlines : t < clock + d
                  THEN CHOOSE t \in ArmedDeadlines : \A u \in ArmedDeadlines : t <= u
                  ELSE clock + d
    IN
    /\ clock + d <= MaxTime
    /\ target > clock
    /\ clock' = target
    /\ UNCHANGED <<apiKey, cache, pc, now, probe, failedEndpoints, ret, email>>

\* --------------------------------------------------------- specifications
\* One request at a time, every kind of transaction outcome.
NextProbe ==
    \/ ReturnCached("r1")
    \/ Launch("r1")
    \/ \E i \in Indices, s \in ResponseCodes : FetchResponds("r1", i, s)
    \/ \E i \in Indices, e \in FetchFailures : FetchFails("r1", i, e)
    \/ \E i \in Indices : TimerFires("r1", i)
    \/ EmailDone("r1")
    \/ EmailFailed("r1")
    \/ \E d \in Steps : Tick(d)

SpecProbe == Init /\ [][NextProbe]_vars

\* lines 115-137: the transaction of probe i ends or its timer fires.
Settle(c, i) ==
    \/ \E s \in ResponseCodes : FetchResponds(c, i, s)
    \/ \E e \in FetchFailures : FetchFails(c, i, e)
    \/ TimerFires(c, i)

\* One request at a time, where no fetch stays open for ever: each probe's
\* transaction ends or its timer, armed at line 116, fires.
FairSpecProbe ==
    Init /\ [][NextProbe]_vars /\ \A i \in Indices : WF_vars(Settle("r1", i))

\* Concurrent requests.
Next ==
    \/ \E c \in Callers : ReturnCached(c)
    \/ \E c \in Callers : Launch(c)
    \/ \E c \in Callers, i \in Indices, s \in ConcurrentCodes : FetchResponds(c, i, s)
    \/ \E c \in Callers, i \in Indices, e \in ConcurrentFailures : FetchFails(c, i, e)
    \/ \E c \in Callers, i \in Indices : TimerFires(c, i)
    \/ \E c \in Callers : EmailDone(c)
    \/ \E c \in Callers : EmailFailed(c)
    \/ \E d \in Steps : Tick(d)

Spec == Init /\ [][Next]_vars

\* ================================================================ claims
\* The request ran the probes (it was not served from the cache).
Launched(c) == \A i \in Indices : probe[c][i].st # "none"

\* The request came back from a run of its own.
RanAndReturned(c) == pc[c] = "returned" /\ Launched(c)

StatusOf(c, i) == probe[c][i].value[1].status

\* C1: every outcome a probe produced is Healthy exactly when the
\* transaction completed with the expected status code (and then carries no
\* error message), Unhealthy exactly when it completed with another code
\* (statusCode is the received code and the message is 'Expected status
\* <expected> but got <actual>'), Error exactly when it did not complete
\* (and then carries no statusCode).
C1_Classification ==
    \A c \in Callers : \A i \in Indices :
        probe[c][i].st = "fulfilled" =>
            LET p == probe[c][i]
                o == p.value[1]
                D == endpointCollectionEntries[i]
                completed == p.txn = "response"
            IN
            /\ o.status \in {"Healthy", "Unhealthy", "Error"}
            /\ o.status = "Healthy" <=> (completed /\ p.code = D.expectedStatus)
            /\ o.status = "Healthy" => o.errorMessage = << >>
            /\ o.status = "Unhealthy" <=> (completed /\ p.code # D.expectedStatus)
            /\ o.status = "Unhealthy" =>
                  /\ o.statusCode = << p.code >>
                  /\ D.expectedStatus = 200 /\ p.code = 404 =>
                        o.errorMessage = << <<"Expected", "status", "200", "but", "got", "404">> >>
                  /\ D.expectedStatus = 404 /\ p.code = 200 =>
                        o.errorMessage = << <<"Expected", "status", "404", "but", "got", "200">> >>
                  /\ o.errorMessage # << >>
            /\ o.status = "Error" <=> ~completed
            /\ o.status = "Error" => o.statusCode = << >>

\* C1 witness: one run with an Unhealthy outcome (a 404 where 200 was
\* expected) next to an Error outcome of a failed transaction.
C1_Witness ==
    \E c \in Callers : \E i, j \in Indices :
        /\ probe[c][i].st = "fulfilled" /\ probe[c][j].st = "fulfilled"
        /\ StatusOf(c, i) = "Unhealthy" /\ probe[c][i].code = 404
        /\ StatusOf(c, j) = "Error" /\ probe[c][j].txn = "failure"

\* C2: whatever the order in which the probes of a run completed, the
\* returned statuses have one entry per definition and the i-th entry is the
\* outcome of the i-th definition's probe.
C2_OrderPreserved ==
    \A c \in Callers :
        RanAndReturned(c) =>
            /\ DOMAIN ret[c][1].statuses = Indices
            /\ \A i \in Indices :
                  /\ ret[c][1].statuses[i].name = endpointCollectionEntries[i].name
                  /\ ret[c][1].statuses[i].expectedStatus =
                        endpointCollectionEntries[i].expectedStatus
                  /\ ret[c][1].statuses[i] = probe[c][i].value[1]

\* C2 witness: a run returned whose second probe completed before its first
\* (failedEndpoints records the completion order of the mismatches).
C2_Witness ==
    \E c \in Callers :
        /\ RanAndReturned(c)
        /\ Len(failedEndpoints[c]) = 2
        /\ failedEndpoints[c][1].name = 2 /\ failedEndpoints[c][2].name = 1
        /\ ret[c][1].statuses[1].name = 1

\* The outcomes of a returned run that are not Healthy.
NonHealthy(c) ==
    {ret[c][1].statuses[i] : i \in {k \in Indices : ret[c][1].statuses[k].status # "Healthy"}}

\* C3: at the end of a run the failures handed to the notifier are exactly
\* the outcomes of the run that are not Healthy, Unhealthy and Error alike.
C3_FailuresAreNonHealthy ==
    \A c \in Callers :
        RanAndReturned(c) =>
            {failedEndpoints[c][k] : k \in 1..Len(failedEndpoints[c])} = NonHealthy(c)

\* C4: a completed run makes exactly one call to the notification provider
\* when the credential is set and failedEndpoints is not empty, whatever its
\* size, and none otherwise; a request served from the cache makes none.
C4_NotifierGating ==
    \A c \in Callers :
        /\ RanAndReturned(c) =>
              email[c].calls = IF apiKey /\ Len(failedEndpoints[c]) >= 1 THEN 1 ELSE 0
        /\ pc[c] = "returned" /\ ~Launched(c) => email[c].calls = 0

\* C4 witness: a run with two failed endpoints and the credential set has
\* made its single call.
C4_Witness ==
    \E c \in Callers :
        /\ RanAndReturned(c) /\ apiKey
        /\ Len(failedEndpoints[c]) = 2
        /\ email[c].calls = 1

\* A request enters getEndpointStatuses.
CallBy(c) == ReturnCached(c) \/ Launch(c)

\* C5 as stated: of two calls less than 60 s apart, the first of which ran
\* the probes, the second returns the first's checkedAt and runs no probes.
C5_SecondCallCached ==
    \A c1, c2 \in Callers :
        ( /\ c1 # c2
          /\ RanAndReturned(c1) /\ pc[c2] = "returned"
          /\ now[c1] <= now[c2]
          /\ now[c2] - now[c1] < CACHE_DURATION_MS )
        => /\ ret[c2][1].lastChecked = ret[c1][1].lastChecked
           /\ ~Launched(c2)

\* C5 amended: a call that begins while the cache still holds the result of
\* a call that ran the probes, less than 60 s after that call began, returns
\* that result (identical checkedAt) and starts no probe.
C5_CachedWhileHeld ==
    [][ \A c1, c2 \in Callers :
          ( /\ c1 # c2
            /\ RanAndReturned(c1)
            /\ cache = ret[c1]
            /\ clock - now[c1] < CACHE_DURATION_MS
            /\ CallBy(c2) )
          => /\ pc'[c2] = "returned"
             /\ ret'[c2] = ret[c1]
             /\ ret'[c2][1].lastChecked = ret[c1][1].lastChecked
             /\ \A i \in Indices : probe'[c2][i].st = "none" ]_vars

\* C5 witness: a request was served, 30 s later, the result another request
\* had computed.
C5_Witness ==
    \E c1, c2 \in Callers :
        /\ c1 # c2
        /\ RanAndReturned(c1)
        /\ pc[c2] = "returned" /\ ~Launched(c2)
        /\ ret[c2] = ret[c1]
        /\ now[c2] - now[c1] = 30000

SomeCall == \E c \in Callers : pc[c] # "idle"

\* The time of the most recent call.
LastCallAt ==
    LET times == {now[c] : c \in {r \in Callers : pc[r] # "idle"}} IN
    CHOOSE t \in times : \A u \in times : u <= t

\* C6: a call made 60 s or more after the call before it starts a probe for
\* every endpoint, and the checkedAt it returns is its own start time, later
\* than the checkedAt any earlier call returned.
C6_Expiry ==
    /\ [][ \A c2 \in Callers :
             ( /\ SomeCall
               /\ clock - LastCallAt >= CACHE_DURATION_MS
               /\ CallBy(c2) )
             => /\ pc'[c2] = "awaiting"
                /\ \A i \in Indices : probe'[c2][i].st = "pending"
                /\ \A c1 \in Callers :
                      ret[c1] # << >> => now'[c2] > ret[c1][1].lastChecked ]_vars
    /\ [](\A c \in Callers : RanAndReturned(c) => ret[c][1].lastChecked = now[c])

\* C6 witness: two requests 60 s apart; the second ran the probes and
\* returned a later checkedAt.
C6_Witness ==
    \E c1, c2 \in Callers :
        /\ c1 # c2
        /\ pc[c1] = "returned" /\ RanAndReturned(c2)
        /\ now[c2] - now[c1] >= CACHE_DURATION_MS
        /\ ret[c2][1].lastChecked > ret[c1][1].lastChecked

\* C7: no callback of the map rejects and getEndpointStatuses never rejects,
\* whatever fetch rejected with.
C7_NeverRaises ==
    \A c \in Callers :
        /\ pc[c] # "threw"
        /\ \A i \in Indices : probe[c][i].st # "rejected"

\* C8: a probe whose timer aborted the transaction (which it does no earlier
\* than 5 s after the request started it) has an outcome with status Error,
\* no statusCode and the message 'Request timed out or was aborted.'.
C8_TimeoutOutcome ==
    \A c \in Callers : \A i \in Indices :
        probe[c][i].txn = "abort" =>
            /\ clock >= now[c] + 5000
            /\ probe[c][i].st = "fulfilled"
            /\ ~probe[c][i].timer
            /\ probe[c][i].value[1].status = "Error"
            /\ probe[c][i].value[1].statusCode = << >>
            /\ probe[c][i].value[1].errorMessage =
                  << <<"Request", "timed", "out", "or", "was", "aborted.">> >>

\* C8 witness: a probe was aborted by its timer while its sibling had
\* answered in time.
C8_Witness ==
    \E c \in Callers : \E i, j \in Indices :
        /\ probe[c][i].txn = "abort"
        /\ probe[c][j].txn = "response"

\* A complete aggregate: one outcome per definition, none of them Pending,
\* and a timestamp.
CompleteAggregate(data) ==
    /\ DOMAIN data.statuses = Indices
    /\ \A i \in Indices :
          /\ data.statuses[i].status \in {"Healthy", "Unhealthy", "Error"}
          /\ data.statuses[i].name = endpointCollectionEntries[i].name
    /\ data.lastChecked \in 0..MaxTime

\* C9: the cache is empty or holds one complete aggregate, and so does what
\* any request was given, also while other requests are half-way through
\* their probes.
C9_CacheComplete ==
    /\ Len(cache) <= 1
    /\ cache # << >> => CompleteAggregate(cache[1])
    /\ \A c \in Callers :
          /\ Len(ret[c]) <= 1
          /\ ret[c] # << >> => CompleteAggregate(ret[c][1])

\* C9 witness: the cache holds a value while a request has one probe
\* settled and another still pending.
C9_Witness ==
    /\ cache # << >>
    /\ \E c \in Callers : \E i, j \in Indices :
          /\ pc[c] = "awaiting"
          /\ probe[c][i].st = "fulfilled"
          /\ probe[c][j].st = "pending"

\* C10: while the call to the notification provider is still open, the
\* request that made it has already installed its result and returned.
C10_NotifierDoesNotBlock ==
    \A c \in Callers :
        email[c].st = "inflight" =>
            /\ pc[c] = "returned"
            /\ ret[c] # << >>
            /\ cache # << >>
            /\ ret[c][1].lastChecked = now[c]

\* C10 witness: a request returned its result with the notification open.
C10_Witness ==
    \E c \in Callers :
        /\ email[c].st = "inflight"
        /\ RanAndReturned(c)
        /\ cache = ret[c]

\* C11: when the call to the notification provider ends, by an answer or by
\* a logged error, it is not made again and the cache, the value each
\* request was given and the position of each request stay as they were.
C11_SendFailureSwallowed ==
    /\ [][ \A c \in Callers :
             ( /\ email[c].st = "inflight"
               /\ email'[c] # email[c]
               /\ email'[c].st # "none" )
             => /\ email'[c].st \in {"done", "logged"}
                /\ email'[c].calls = email[c].calls
                /\ cache' = cache /\ ret' = ret /\ pc' = pc ]_vars
    /\ [](\A c \in Callers :
             email[c].st = "logged" =>
                 email[c].calls = 1 /\ pc[c] = "returned" /\ ret[c] # << >>)

\* C11 witness: the send failed and was logged; the request keeps the
\* result it returned and the cache keeps it too.
C11_Witness ==
    \E c \in Callers :
        /\ email[c].st = "logged"
        /\ RanAndReturned(c)
        /\ cache = ret[c]
        /\ \E i \in Indices : ret[c][1].statuses[i].status = "Unhealthy"

\* C12 as stated: the result a run returns is stamped with the time at
\* which the run completed.
C12_StampedAtCompletion ==
    [][ \A c \in Callers :
          pc[c] = "awaiting" /\ pc'[c] = "returned" =>
              ret'[c][1].lastChecked = clock ]_vars

\* C12 amended: the result of a run is stamped with the time at which the
\* run started (the request's `now`), not later than its completion; a run
\* that waited for a timer completed at least 5 s after its stamp.
C12_StampedAtStart ==
    \A c \in Callers :
        RanAndReturned(c) =>
            /\ ret[c][1].lastChecked = now[c]
            /\ ret[c][1].lastChecked <= clock
            /\ (\E i \in Indices : probe[c][i].txn = "abort") =>
                  clock - ret[c][1].lastChecked >= 5000

\* C12 witness: a run that ended with a timer abort and carries the stamp
\* of its start.
C12_Witness ==
    \E c \in Callers :
        /\ RanAndReturned(c)
        /\ \E i \in Indices : probe[c][i].txn = "abort"
        /\ ret[c][1].lastChecked = 0
        /\ clock = 5000

\* C13 as stated: the entries of failedEndpoints are in the order of their
\* definitions.
C13_FailuresInDefinitionOrder ==
    \A c \in Callers :
        \A k, l \in 1..Len(failedEndpoints[c]) :
            k < l => failedEndpoints[c][k].name < failedEndpoints[c][l].name

\* C13 amended: failedEndpoints is in completion order: a probe that
\* completes with a mismatch appends its outcome at the end, and each
\* definition has at most one entry.
C13_FailuresInCompletionOrder ==
    /\ [][ \A c \in Callers :
             ( /\ failedEndpoints'[c] # failedEndpoints[c]
               /\ failedEndpoints'[c] # << >> )
             => \E i \in Indices :
                   /\ probe[c][i].st = "pending"
                   /\ probe'[c][i].st = "fulfilled"
                   /\ probe'[c][i].value[1].status = "Unhealthy"
                   /\ failedEndpoints'[c] =
                         Append(failedEndpoints[c], probe'[c][i].value[1]) ]_vars
    /\ [](\A c \in Callers :
             \A k, l \in 1..Len(failedEndpoints[c]) :
                 k # l => failedEndpoints[c][k].name # failedEndpoints[c][l].name)

\* C13 witness: the second definition's mismatch is listed before the
\* first's.
C13_Witness ==
    \E c \in Callers :
        /\ Len(failedEndpoints[c]) = 2
        /\ failedEndpoints[c][1].name > failedEndpoints[c][2].name
        /\ pc[c] = "returned"

\* C14: a callback that has returned or thrown, by whichever path, has
\* cleared its timer; only pending probes have an armed timer.
C14_TimerCleared ==
    \A c \in Callers : \A i \in Indices :
        /\ probe[c][i].st \in {"fulfilled", "rejected", "none"} => ~probe[c][i].timer
        /\ probe[c][i].timer => probe[c][i].st = "pending"
        /\ pc[c] \in {"returned", "idle"} => ~probe[c][i].timer

\* C14 witness: a run returned after one probe was aborted by its timer
\* and the other saw its transaction fail; no timer is left.
C14_Witness ==
    \E c \in Callers : \E i, j \in Indices :
        /\ pc[c] = "returned"
        /\ probe[c][i].txn = "abort" /\ ~probe[c][i].timer
        /\ probe[c][j].txn = "failure" /\ ~probe[c][j].timer

\* The failure carries a description and the description does not speak of
\* a timeout.
DescribedNonTimeout(error) ==
    /\ error.name # "AbortError"
    /\ error.message # << >>
    /\ ~includes(toLowerCase(error.message[1]), <<"timed", "out">>)

\* C15 as stated: a failed transaction whose failure is not a timeout gives
\* an Error outcome whose message is the failure's own description,
\* whatever its text.
C15_DescriptionPassedThrough ==
    \A c \in Callers : \A i \in Indices :
        ( /\ probe[c][i].txn = "failure"
          /\ probe[c][i].st = "fulfilled"
          /\ DescribedNonTimeout(probe[c][i].err[1]) )
        => /\ probe[c][i].value[1].status = "Error"
           /\ probe[c][i].value[1].errorMessage = probe[c][i].err[1].message

\* C15 amended: a failed transaction that produced an outcome gives Error;
\* its message is the fixed text when the failure's description contains
\* 'timed out' or 'aborted' in any letter case, and the description itself
\* otherwise.
C15_DescriptionUnlessTimeoutText ==
    \A c \in Callers : \A i \in Indices :
        (probe[c][i].txn = "failure" /\ probe[c][i].st = "fulfilled") =>
            LET o == probe[c][i].value[1]
                description == probe[c][i].err[1].message
                fixed == << <<"Request", "timed", "out", "or", "was", "aborted.">> >>
            IN
            /\ o.status = "Error"
            /\ o.statusCode = << >>
            /\ description # << >>
            /\ description = << <<"fetch", "failed">> >> => o.errorMessage = description
            /\ description = << <<"Socket", "Timed", "Out">> >> => o.errorMessage = fixed
            /\ description = << <<"Connection", "aborted", "by", "peer">> >> =>
                  o.errorMessage = fixed
            /\ o.errorMessage \in {description, fixed}

\* C15 witness: in one run a connection error whose text mentions an abort
\* got the fixed message and a 'fetch failed' kept its own.
C15_Witness ==
    \E c \in Callers : \E i, j \in Indices :
        /\ pc[c] = "returned"
        /\ probe[c][i].txn = "failure"
        /\ probe[c][i].err[1].message = << <<"Connection", "aborted", "by", "peer">> >>
        /\ probe[c][i].value[1].errorMessage =
              << <<"Request", "timed", "out", "or", "was", "aborted.">> >>
        /\ probe[c][j].txn = "failure"
        /\ probe[c][j].value[1].errorMessage = << <<"fetch", "failed">> >>

\* C16: while a probe of a request's run is pending, the request has been
\* given no result and has not called the notifier, and the step that
\* leaves one of its probes pending does not replace the cache on its
\* behalf (only another request's completed run may).  A run that rejects
\* early (C7) gives no result either.
C16_FanInBarrier ==
    /\ [](\A c \in Callers :
             (\E i \in Indices : probe[c][i].st = "pending") =>
                 /\ pc[c] # "returned"
                 /\ ret[c] = << >>
                 /\ email[c].calls = 0 /\ email[c].st = "none")
    /\ [][ \A c \in Callers :
             ( /\ pc[c] = "awaiting"
               /\ \E i \in Indices : probe'[c][i].st = "pending"
               /\ cache' # cache )
             => \E c2 \in Callers \ {c} :
                   /\ pc[c2] = "awaiting" /\ pc'[c2] = "returned"
                   /\ \A i \in Indices : probe'[c2][i].st = "fulfilled"
                   /\ cache' = ret'[c2] ]_vars

\* C16 witness: one probe of a run has recorded a failure, the credential
\* is set, the other probe is pending: nothing has been sent, returned or
\* cached.
C16_Witness ==
    \E c \in Callers : \E j \in Indices :
        /\ apiKey
        /\ Len(failedEndpoints[c]) = 1
        /\ probe[c][j].st = "pending"
        /\ email[c].st = "none"
        /\ ret[c] = << >>
        /\ cache = << >>

\* C17: a request that finds a cached value less than 60 s old returns in
\* the same step with that value, leaves the cache as it is, starts no
\* probe, arms no timer and calls the notifier not at all; the other
\* requests' probes and sends are not touched.
C17_CacheHitNoSideEffects ==
    [][ \A c \in Callers :
          ( /\ cache # << >>
            /\ clock - cache[1].lastChecked < 60000
            /\ CallBy(c) )
          => /\ pc'[c] = "returned"
             /\ ret'[c] = cache
             /\ cache' = cache
             /\ \A i \in Indices :
                   probe'[c][i].st = "none" /\ ~probe'[c][i].timer
             /\ email'[c].calls = 0 /\ email'[c].st = "none"
             /\ failedEndpoints'[c] = << >>
             /\ \A c2 \in Callers \ {c} :
                   probe'[c2] = probe[c2] /\ email'[c2] = email[c2] ]_vars

\* C17 witness: a request made 30 s after the cached run was served the
\* cached value, with no probe and no send of its own.
C17_Witness ==
    \E c \in Callers :
        /\ pc[c] = "returned" /\ ~Launched(c)
        /\ cache # << >> /\ cache[1].lastChecked = 0
        /\ ret[c] = cache
        /\ now[c] = 30000
        /\ email[c] = NoEmail
        /\ \E i \in Indices : cache[1].statuses[i].status = "Error"

\* C18: when every pending probe's transaction ends or its timer fires, a
\* request that is waiting for its probes is eventually given a result.
C18_EveryCallReturns ==
    \A c \in Callers : (pc[c] = "awaiting") ~> (pc[c] = "returned")

\* C19 as stated: whatever the interleaving of refreshes, the timestamp of
\* the cached value never decreases.
C19_TimestampNeverDecreases ==
    [][ (cache # << >> /\ cache' # << >>) =>
            cache'[1].lastChecked >= cache[1].lastChecked ]_vars

\* C19 amended: a run that completes installs its own result, stamped with
\* its own start time, over whatever the cache holds; when that lowers the
\* cached timestamp, the value replaced is one another request, started
\* later, was given while this run was in flight.
C19_InstallStampsOwnStart ==
    [][ \A c \in Callers :
          (pc[c] = "awaiting" /\ pc'[c] = "returned") =>
              /\ cache' = ret'[c]
              /\ cache'[1].lastChecked = now[c]
              /\ (cache # << >> /\ cache[1].lastChecked > now[c]) =>
                    \E c2 \in Callers \ {c} :
                        /\ pc[c2] = "returned"
                        /\ ret[c2] = cache
                        /\ now[c2] >= cache[1].lastChecked
                        /\ cache[1].lastChecked <= clock ]_vars

\* C19 witness: the cache holds the result of one run although another
\* request was given a result with a later timestamp.
C19_Witness ==
    \E c, c2 \in Callers :
        /\ c # c2
        /\ RanAndReturned(c) /\ RanAndReturned(c2)
        /\ cache = ret[c]
        /\ ret[c2][1].lastChecked > cache[1].lastChecked

\* C20 as stated: two requests whose runs started less than 60 s apart do
\* not both send a notification.
C20_OneEmailPerWindow ==
    \A c1, c2 \in Callers :
        (c1 # c2 /\ email[c1].calls >= 1 /\ email[c2].calls >= 1) =>
            \/ now[c1] - now[c2] >= 60000
            \/ now[c2] - now[c1] >= 60000

\* C20 amended: a notification is sent at most once per run, only by a
\* request that ran the probes and returned, and a run starts only when the
\* cache is empty or its value is 60 s old or older; requests that start
\* while another's run is in flight each run and each may send.
C20_OneEmailPerRun ==
    /\ [](\A c \in Callers :
             /\ email[c].calls <= 1
             /\ email[c].calls = 1 => RanAndReturned(c)
             /\ (pc[c] = "returned" /\ ~Launched(c)) => email[c].calls = 0)
    /\ [][ \A c \in Callers :
             (pc[c] # "awaiting" /\ pc'[c] = "awaiting") =>
                 \/ cache = << >>
                 \/ clock - cache[1].lastChecked >= 60000 ]_vars

\* C20 witness: two requests whose runs started within 5 s of each other
\* have both sent a notification.
C20_Witness ==
    \E c1, c2 \in Callers :
        /\ c1 # c2
        /\ RanAndReturned(c1) /\ RanAndReturned(c2)
        /\ email[c1].calls = 1 /\ email[c2].calls = 1
        /\ now[c2] - now[c1] \in 0..5000

====
